---- MODULE Spec2Model ----
(***************************************************************************)
(* A model of kntp (src/src/kntp/core.py): the NTP query, the sampler, the *)
(* ranking engine and the recommender.                                     *)
(*                                                                         *)
(* Number representation.  TLC integers are 32-bit signed, NTP words are   *)
(* 32-bit unsigned and NTP_DELTA is above 2^31, so a 32-bit word (and an   *)
(* NTP-epoch second count) is a pair <<hi, lo>> of 16-bit limbs, value     *)
(* hi * 65536 + lo.  A clock reading is [s, f]: s seconds and f/65536.     *)
(* Every time the model feeds in is a multiple of 1/4 s, so every float    *)
(* operation of the code is exact on it and the integer arithmetic below   *)
(* computes the same numbers.  Milliseconds are integers.                  *)
(***************************************************************************)
EXTENDS Integers, Sequences, FiniteSets, TLC

VARIABLES
    \* query_ntp, called directly
    q_pc, q_timeout, q_env, q_out,
    \* collect_stats
    servers, samples, timeout, sleep_between,
    pc, i, j, raw, fails, out, error, calls, sleeps,
    \* rank_servers and recommend
    stats, base, w_delay, w_jitter, max_delay_ms, allow_base,
    r_pc, ranked, r_error, require_ok_rate, best

qvars == <<q_pc, q_timeout, q_env, q_out>>
cvars == <<servers, samples, timeout, sleep_between,
           pc, i, j, raw, fails, out, error, calls, sleeps>>
rvars == <<stats, base, w_delay, w_jitter, max_delay_ms, allow_base,
           r_pc, ranked, r_error, require_ok_rate, best>>
vars == <<qvars, cvars, rvars>>

None == "None"

\* an optional number or record: <<>> when absent, <<x>> when present
Absent == <<>>
Some(x) == <<x>>

----------------------------------------------------------------------------
(* Constants of the program and of the wire format. *)

\* NTP_DELTA = 2208988800 = 33706 * 65536 + 32384
NTP_DELTA_HI == 33706
NTP_DELTA_LO == 32384
Limb == 65536
PacketLen == 48
RecvMax == 512

----------------------------------------------------------------------------
(* Bytes, words and clock readings. *)

\* data[k] with Python's 0-based index
At(data, k) == data[k + 1]

\* data[a:b] with Python's slice semantics (clipped to the length)
Slice(data, a, b) ==
    LET hi == IF b < Len(data) THEN b ELSE Len(data)
    IN  IF hi <= a THEN <<>> ELSE [k \in 1..(hi - a) |-> data[a + k]]

\* struct.unpack("!I", four bytes): big-endian, as limbs
UnpackWord(b) == <<b[1] * 256 + b[2], b[3] * 256 + b[4]>>

\* struct.pack("!I", w): the four big-endian bytes of a word in range
PackWord(w) == <<w[1] \div 256, w[1] % 256, w[2] \div 256, w[2] % 256>>

\* struct.pack raises struct.error unless 0 <= w < 2^32
WordInRange(w) == w[1] >= 0 /\ w[1] < Limb

system_to_ntp(t) ==
    LET lo == (t.s % Limb) + NTP_DELTA_LO
    IN  [s |-> <<(t.s \div Limb) + NTP_DELTA_HI + (lo \div Limb), lo % Limb>>,
         f |-> t.f]

\* an NTP time whose fraction is a 32-bit word, to a clock reading; the low
\* limb of the fraction is below the model's resolution
ntp_to_system(sec, frac) ==
    [s |-> (sec[1] - NTP_DELTA_HI) * Limb + (sec[2] - NTP_DELTA_LO),
     f |-> frac[1]]

\* a - b in ticks of 1/65536 s
Diff(a, b) == (a.s - b.s) * Limb + (a.f - b.f)

\* t + d ticks
Later(t, d) ==
    LET f == t.f + d
    IN  [s |-> t.s + (f \div Limb), f |-> f % Limb]

----------------------------------------------------------------------------
(* The response validator. *)

Leap(b0) == (b0 \div 64) % 4
Mode(b0) == b0 % 8

\* a validator without the stratum check
validate_without_stratum(data, req_sec, req_frac) ==
    IF Len(data) < PacketLen THEN "too short"
    ELSE LET o == Slice(data, 24, 32)
         IN  IF Mode(At(data, 0)) # 4 THEN "invalid mode"
             ELSE IF Leap(At(data, 0)) = 3 THEN "unsynchronized"
             ELSE IF <<UnpackWord(SubSeq(o, 1, 4)), UnpackWord(SubSeq(o, 5, 8))>>
                     # <<req_sec, req_frac>>
                  THEN "originate mismatch"
             ELSE "ok"

\* "ok", or the reason NTPResponseError is raised with
validate_ntp_response(data, req_sec, req_frac) ==
    IF Len(data) < PacketLen THEN "too short"
    ELSE LET li_vn_mode == At(data, 0)
             leap == Leap(li_vn_mode)
             mode == Mode(li_vn_mode)
             stratum == At(data, 1)
             o == Slice(data, 24, 32)
             originate_sec == UnpackWord(SubSeq(o, 1, 4))
             originate_frac == UnpackWord(SubSeq(o, 5, 8))
         IN  IF mode # 4 THEN "invalid mode"
             ELSE IF leap = 3 THEN "unsynchronized"
             ELSE IF stratum = 0 THEN "stratum 0"
             ELSE IF <<originate_sec, originate_frac>> # <<req_sec, req_frac>>
                  THEN "originate mismatch"
             ELSE "ok"

----------------------------------------------------------------------------
(* The network and the server, as query_ntp sees them.  An environment env *)
(* says how each system call of one query_ntp call ends:                   *)
(*   sock  "ok" | "OSError"            socket.socket()                     *)
(*   t1    the clock at line 124                                           *)
(*   send  "ok" | "gaierror" | "OSError" | "TypeError"    sendto        *)
(*   recv  "ok" | "timeout" | "OSError"                      recvfrom      *)
(*   rtt   ticks from t1 to the clock reading t4 of line 133               *)
(*   resp  the datagram the server answers with, see Respond               *)

Zeros(n) == [k \in 1..n |-> 0]

\* the request's bytes 40..47, with one byte changed when the reply is stale
Originate(packet, orig) ==
    LET echo == Slice(packet, 40, 48)
    IN  CASE orig = "echo" -> echo
          [] orig = "stale_sec" -> [echo EXCEPT ![4] = (@ + 1) % 256]
          [] orig = "stale_frac" -> [echo EXCEPT ![5] = (@ + 64) % 256]
          [] orig = "zero" -> Zeros(8)

\* the datagram a server answers with: header b0, stratum, the originate
\* field, T2 = t1 + skew and T3 = T2 + proc by the server's clock, cut or
\* padded to len bytes
Respond(resp, packet, t1) ==
    LET t2 == system_to_ntp(Later(t1, resp.skew))
        t3 == system_to_ntp(Later(t1, resp.skew + resp.proc))
        full == <<resp.b0, resp.stratum>> \o Zeros(22)
                \o Originate(packet, resp.orig)
                \o PackWord(t2.s) \o PackWord(<<t2.f, 0>>)
                \o PackWord(t3.s) \o PackWord(<<t3.f, 0>>)
    IN  IF resp.len <= PacketLen THEN Slice(full, 0, resp.len)
        ELSE full \o Zeros(resp.len - PacketLen)

----------------------------------------------------------------------------
(* query_ntp: one request/response exchange.  The result says how the call *)
(* ended (kind "sample" or "raise", with the exception's class), at which  *)
(* step (at), what became of the socket ("none": never created, "open",    *)
(* "closed"), the datagram sent and the datagram received, if any.         *)

Raise(exc, at, sock, packet, data) ==
    [kind |-> "raise", exc |-> exc, at |-> at, offset_ms |-> 0, delay_ms |-> 0,
     sock |-> sock, packet |-> packet, data |-> data]

Sample(offset_ms, delay_ms, packet, data) ==
    [kind |-> "sample", exc |-> None, at |-> "return", offset_ms |-> offset_ms,
     delay_ms |-> delay_ms, sock |-> "closed", packet |-> packet, data |-> data]

\* lines 138-149: decode T2 and T3 and compute the sample
Decode(packet, data, t1, t4) ==
    LET d == Slice(data, 0, 48)
        u == [k \in 0..11 |-> UnpackWord(SubSeq(d, 4 * k + 1, 4 * k + 4))]
        t2 == ntp_to_system(u[8], u[9])
        t3 == ntp_to_system(u[10], u[11])
        delay == Diff(t4, t1) - Diff(t3, t2)
        offset2 == Diff(t2, t1) + Diff(t3, t4)
    IN  Sample((offset2 * 1000) \div (2 * Limb), (delay * 1000) \div Limb,
               packet, data)

query_ntp(timeout_, env) ==
    IF env.sock # "ok" THEN Raise(env.sock, "socket", "none", <<>>, <<>>)
    ELSE IF timeout_ < 0 THEN Raise("ValueError", "settimeout", "open", <<>>, <<>>)
    ELSE
    LET t1 == env.t1
        t1_ntp == system_to_ntp(t1)
        req_sec == t1_ntp.s
        req_frac == <<t1_ntp.f, 0>>
    IN  IF ~WordInRange(req_sec)
        THEN Raise("struct.error", "pack_into", "open", <<>>, <<>>)
        ELSE
        LET packet == <<35>> \o Zeros(39) \o PackWord(req_sec) \o PackWord(req_frac)
        IN  IF env.send # "ok" THEN Raise(env.send, "sendto", "closed", <<>>, <<>>)
            \* a zero timeout makes the socket non-blocking: nothing has arrived yet
            ELSE IF timeout_ = 0
                 THEN Raise("OSError", "recvfrom", "closed", packet, <<>>)
            ELSE IF env.recv # "ok"
                 THEN Raise(env.recv, "recvfrom", "closed", packet, <<>>)
            ELSE
            LET data == Slice(Respond(env.resp, packet, t1), 0, RecvMax)
                t4 == Later(t1, env.rtt)
                v == validate_ntp_response(data, req_sec, req_frac)
            IN  IF v # "ok"
                THEN Raise("NTPResponseError", "validate", "closed", packet, data)
                ELSE Decode(packet, data, t1, t4)

\* an except clause that forgets the decoding and validation errors
ClassifiedTransportOnly == {"timeout", "gaierror", "OSError"}

\* an except clause that catches every exception
ClassifiedEverything ==
    {"timeout", "gaierror", "OSError", "struct.error", "NTPResponseError",
     "ValueError", "TypeError"}

\* the except clause of collect_stats, line 173
Classified == {"timeout", "gaierror", "OSError", "struct.error", "NTPResponseError"}

----------------------------------------------------------------------------
(* Inputs of a direct query_ntp call. *)

GoodResp == [b0 |-> 36, stratum |-> 2, orig |-> "echo", len |-> 48,
             skew |-> 16384, proc |-> 0]

GoodEnv == [sock |-> "ok", t1 |-> [s |-> 1790000000, f |-> 49152],
            send |-> "ok", recv |-> "ok", rtt |-> 32768, resp |-> GoodResp]

\* LI/VN/mode bytes: every Leap Indicator and mode, versions 3 and 4
B0Vals == {li * 64 + vn * 8 + m : li \in 0..3, vn \in {3, 4}, m \in 0..7}

Resps == [b0 : B0Vals, stratum : {0, 1, 16},
          orig : {"echo", "stale_sec", "stale_frac", "zero"},
          len : {0, 47, 48, 60},
          skew : {16384}, proc : {0, 49152}]

\* 2085978496 + NTP_DELTA = 2^32: the clock at which the seconds no longer
\* fit the 32-bit field
ClockVals == {[s |-> 1790000000, f |-> 49152], [s |-> 1790000000, f |-> 0],
              [s |-> 2085978496, f |-> 0]}

QEnvs ==
    {[GoodEnv EXCEPT !.resp = r, !.rtt = d] : r \in Resps, d \in {16384, 32768}}
    \cup {[GoodEnv EXCEPT !.sock = a, !.send = b, !.recv = c, !.t1 = t] :
            a \in {"ok", "OSError"},
            b \in {"ok", "gaierror", "OSError", "TypeError"},
            c \in {"ok", "timeout", "OSError"},
            t \in ClockVals}

QTimeouts == {-1, 0, 2}

QInit ==
    /\ q_pc = "call"
    /\ q_timeout \in QTimeouts
    /\ q_env \in QEnvs
    /\ q_out = None

Query ==
    /\ q_pc = "call"
    /\ q_out' = query_ntp(q_timeout, q_env)
    /\ q_pc' = "returned"
    /\ UNCHANGED <<q_timeout, q_env>>

----------------------------------------------------------------------------
(* statistics.mean and statistics.pstdev.  A mean is the exact fraction    *)
(* <<sum, n>>; a population standard deviation is kept as the fraction     *)
(* whose square root it is, <<n * sum of squares - sum^2, n^2>>.           *)

RECURSIVE Sum(_)
Sum(xs) == IF xs = <<>> THEN 0 ELSE Head(xs) + Sum(Tail(xs))

mean(xs) == <<Sum(xs), Len(xs)>>

pstdev(xs) ==
    LET sq == [k \in 1..Len(xs) |-> xs[k] * xs[k]]
    IN  [root_of |-> <<Len(xs) * Sum(sq) - Sum(xs) * Sum(xs), Len(xs) * Len(xs)>>]

Zero == [root_of |-> <<0, 1>>]

----------------------------------------------------------------------------
(* collect_stats.  calls is the sequence of query_ntp calls made so far,   *)
(* each with how it ended; sleeps counts the time.sleep calls.             *)

MaxSamples == 2

ServerLists == {<<>>, <<"a">>, <<"a", "b">>, <<"a", "a">>}

\* what the network does to one attempt of a sampling run
CollectEnvs ==
    {GoodEnv,
     [GoodEnv EXCEPT !.resp.proc = 49152],
     [GoodEnv EXCEPT !.resp.b0 = 35],
     [GoodEnv EXCEPT !.recv = "timeout"],
     [GoodEnv EXCEPT !.send = "gaierror"],
     [GoodEnv EXCEPT !.sock = "OSError"],
     [GoodEnv EXCEPT !.t1 = [s |-> 2085978496, f |-> 0]],
     [GoodEnv EXCEPT !.send = "TypeError"]}

CInit ==
    /\ servers \in ServerLists
    /\ samples \in 0..MaxSamples
    /\ timeout \in {-1, 0, 2}
    /\ sleep_between \in {-1, 0, 5}
    /\ pc = "start"
    /\ i = 0
    /\ j = 1
    /\ raw = <<>>
    /\ fails = <<>>
    /\ out = <<>>
    /\ error = None
    /\ calls = <<>>
    /\ sleeps = 0

\* the argument checks with timeout = 0 let through
ValidateLax ==
    /\ pc = "start"
    /\ IF samples < 1 \/ timeout < 0 \/ sleep_between < 0
       THEN /\ pc' = "raised"
            /\ error' = "ValueError"
            /\ UNCHANGED <<raw, fails>>
       ELSE /\ pc' = "loop"
            /\ raw' = [s \in {servers[k] : k \in 1..Len(servers)} |-> <<>>]
            /\ fails' = [s \in {servers[k] : k \in 1..Len(servers)} |-> 0]
            /\ UNCHANGED error
    /\ UNCHANGED <<servers, samples, timeout, sleep_between, i, j, out, calls, sleeps>>

\* lines 159-167
Validate ==
    /\ pc = "start"
    /\ IF samples < 1 \/ timeout <= 0 \/ sleep_between < 0
       THEN /\ pc' = "raised"
            /\ error' = "ValueError"
            /\ UNCHANGED <<raw, fails>>
       ELSE /\ pc' = "loop"
            /\ raw' = [s \in {servers[k] : k \in 1..Len(servers)} |-> <<>>]
            /\ fails' = [s \in {servers[k] : k \in 1..Len(servers)} |-> 0]
            /\ UNCHANGED error
    /\ UNCHANGED <<servers, samples, timeout, sleep_between, i, j, out, calls, sleeps>>

\* one pass of the inner loop body, lines 171-174, on the result r of the query
Absorb(s, r) ==
    IF r.kind = "sample"
    THEN /\ raw' = [raw EXCEPT ![s] = Append(@, [offset_ms |-> r.offset_ms,
                                                  delay_ms |-> r.delay_ms])]
         /\ UNCHANGED <<fails, pc, error>>
    ELSE IF r.exc \in Classified
    THEN /\ fails' = [fails EXCEPT ![s] = @ + 1]
         /\ UNCHANGED <<raw, pc, error>>
    ELSE /\ pc' = "raised"
         /\ error' = r.exc
         /\ UNCHANGED <<raw, fails>>

\* an inner loop that queries a server again after a failed attempt
AttemptRetry ==
    /\ pc = "loop"
    /\ i < samples
    /\ j <= Len(servers)
    /\ \E env \in CollectEnvs :
         LET s == servers[j]
             r == query_ntp(timeout, env)
         IN  /\ Absorb(s, r)
             /\ calls' = Append(calls, [server |-> s, kind |-> r.kind, exc |-> r.exc])
             /\ j' = IF r.kind = "sample" \/ fails[s] >= samples THEN j + 1 ELSE j
    /\ UNCHANGED <<servers, samples, timeout, sleep_between, i, out, sleeps>>

Attempt ==
    /\ pc = "loop"
    /\ i < samples
    /\ j <= Len(servers)
    /\ \E env \in CollectEnvs :
         LET s == servers[j]
             r == query_ntp(timeout, env)
         IN  /\ Absorb(s, r)
             /\ calls' = Append(calls, [server |-> s, kind |-> r.kind, exc |-> r.exc])
    /\ j' = j + 1
    /\ UNCHANGED <<servers, samples, timeout, sleep_between, i, out, sleeps>>

\* lines 175-176, and the next round
EndRound ==
    /\ pc = "loop"
    /\ i < samples
    /\ j > Len(servers)
    /\ sleeps' = IF i # samples - 1 /\ sleep_between > 0 THEN sleeps + 1 ELSE sleeps
    /\ i' = i + 1
    /\ j' = 1
    /\ UNCHANGED <<servers, samples, timeout, sleep_between, pc, raw, fails, out,
                   error, calls>>

\* lines 180-198 for one server
StatsOf(s) ==
    LET ok == Len(raw[s])
        offs == [k \in 1..ok |-> raw[s][k].offset_ms]
        dels == [k \in 1..ok |-> raw[s][k].delay_ms]
    IN  [server |-> s, ok |-> ok, fail |-> fails[s],
         avg_offset_ms |-> mean(offs),
         std_offset_ms |-> IF ok > 1 THEN pstdev(offs) ELSE Zero,
         avg_delay_ms |-> mean(dels),
         std_delay_ms |-> IF ok > 1 THEN pstdev(dels) ELSE Zero]

\* an output loop without the ok == 0 test
RECURSIVE EmitAll(_)
EmitAll(ss) ==
    IF ss = <<>> THEN <<>> ELSE <<StatsOf(Head(ss))>> \o EmitAll(Tail(ss))

\* lines 178-200
RECURSIVE Emit(_)
Emit(ss) ==
    IF ss = <<>> THEN <<>>
    ELSE IF Len(raw[Head(ss)]) = 0 THEN Emit(Tail(ss))
    ELSE <<StatsOf(Head(ss))>> \o Emit(Tail(ss))

Aggregate ==
    /\ pc = "loop"
    /\ i = samples
    /\ out' = Emit(servers)
    /\ pc' = "done"
    /\ UNCHANGED <<servers, samples, timeout, sleep_between, i, j, raw, fails,
                   error, calls, sleeps>>

----------------------------------------------------------------------------
(* rank_servers and recommend.  The statistics fed in are whole numbers of *)
(* milliseconds and the weights whole numbers, so the float arithmetic of  *)
(* line 227 is exact; require_ok_rate is in tenths.                        *)

MaxStats == 3

abs(x) == IF x < 0 THEN -x ELSE x

grade(score) ==
    IF score <= 5 THEN "A"
    ELSE IF score <= 10 THEN "B"
    ELSE IF score <= 20 THEN "C"
    ELSE "D"

St(server, ok, fail, off, std, delay) ==
    [server |-> server, ok |-> ok, fail |-> fail, avg_offset_ms |-> off,
     std_offset_ms |-> std, avg_delay_ms |-> delay, std_delay_ms |-> 1]

\* the Stats a caller may pass: a delay at the threshold (100), above it and
\* below zero (a server whose T3 - T2 exceeds the round trip), equal scores,
\* no attempts at all
StatsPool ==
    {St("base", 5, 0, 0, 0, 10),
     St("base", 5, 0, 2, 1, 100),
     St("s1", 4, 1, 1, 2, 5),
     St("s2", 1, 4, -3, 0, 5),
     St("s1", 4, 1, 1, 0, -30),
     St("s2", 1, 0, 3, 0, 200),
     St("s1", 0, 0, 0, 0, 10),
     St("s2", 5, 0, 0, 0, 100)}

SeqsUpTo(S, n) == UNION {[1..k -> S] : k \in 0..n}

RConfig(b, wd, wj, md, ab) ==
    [base |-> b, w_delay |-> wd, w_jitter |-> wj, max_delay_ms |-> md,
     allow_base |-> ab]

RConfigs ==
    {RConfig("base", wd, wj, md, ab) :
        wd \in {0, 1}, wj \in {0, 1}, md \in {Absent, Some(100)}, ab \in BOOLEAN}
    \cup {RConfig("kriss", 1, 1, md, TRUE) : md \in {Absent, Some(100)}}
    \cup {RConfig(b, -1, 1, Some(100), TRUE) : b \in {"base", "kriss"}}
    \cup {RConfig(b, 1, -1, Some(100), TRUE) : b \in {"base", "kriss"}}
    \cup {RConfig(b, 1, 1, Some(0), TRUE) : b \in {"base", "kriss"}}

RateVals == {0, 8, 11}

RInit ==
    /\ stats \in SeqsUpTo(StatsPool, MaxStats)
    /\ \E c \in RConfigs :
         /\ base = c.base
         /\ w_delay = c.w_delay
         /\ w_jitter = c.w_jitter
         /\ max_delay_ms = c.max_delay_ms
         /\ allow_base = c.allow_base
    /\ r_pc = "rank"
    /\ ranked = <<>>
    /\ r_error = None
    /\ require_ok_rate = 0
    /\ best = Absent

\* a lookup that settles for the first entry when the base has none
BaseStatOrFirst(ss, b) ==
    IF \E k \in 1..Len(ss) : ss[k].server = b
    THEN Some(ss[CHOOSE k \in 1..Len(ss) :
                  ss[k].server = b /\ \A m \in 1..(k - 1) : ss[m].server # b])
    ELSE IF ss = <<>> THEN Absent ELSE Some(ss[1])

\* line 217: the first entry of the base server, or None
RECURSIVE BaseStat(_, _)
BaseStat(ss, b) ==
    IF ss = <<>> THEN Absent
    ELSE IF Head(ss).server = b THEN Some(Head(ss))
    ELSE BaseStat(Tail(ss), b)

\* lines 226-245 for one entry
RankedOf(st, base_stat, wd, wj) ==
    LET vs_base == st.avg_offset_ms - base_stat.avg_offset_ms
        score == abs(vs_base) + (wd * st.avg_delay_ms) + (wj * st.std_offset_ms)
    IN  [server |-> st.server, ok |-> st.ok, fail |-> st.fail,
         avg_offset_ms |-> st.avg_offset_ms, std_offset_ms |-> st.std_offset_ms,
         avg_delay_ms |-> st.avg_delay_ms, std_delay_ms |-> st.std_delay_ms,
         vs_base_ms |-> vs_base, score |-> score, grade |-> grade(score)]

\* lines 223-224
SkipBase(st, b, ab) == ~ab /\ st.server = b

\* a delay filter that keeps a delay equal to the threshold
TooSlowAboveOnly(st, md) == md # Absent /\ st.avg_delay_ms > md[1]

\* lines 229-230
TooSlow(st, md) == md # Absent /\ st.avg_delay_ms >= md[1]

\* lines 221-245: the entries kept, in input order
RECURSIVE Candidates(_, _, _, _, _, _, _)
Candidates(ss, b, base_stat, wd, wj, md, ab) ==
    IF ss = <<>> THEN <<>>
    ELSE LET st == Head(ss)
             rest == Candidates(Tail(ss), b, base_stat, wd, wj, md, ab)
         IN  IF SkipBase(st, b, ab) \/ TooSlow(st, md) THEN rest
             ELSE <<RankedOf(st, base_stat, wd, wj)>> \o rest

\* an insertion in front of the entries of equal score: an unstable sort
RECURSIVE InsertBeforeEqual(_, _)
InsertBeforeEqual(r, sorted) ==
    IF sorted = <<>> THEN <<r>>
    ELSE IF Head(sorted).score < r.score
         THEN <<Head(sorted)>> \o InsertBeforeEqual(r, Tail(sorted))
         ELSE <<r>> \o sorted

\* list.sort(key=score), line 247: a stable sort, here by insertion of each
\* entry behind the entries whose score is not greater
RECURSIVE InsertByScore(_, _)
InsertByScore(r, sorted) ==
    IF sorted = <<>> THEN <<r>>
    ELSE IF Head(sorted).score <= r.score
         THEN <<Head(sorted)>> \o InsertByScore(r, Tail(sorted))
         ELSE <<r>> \o sorted

RECURSIVE SortByScore(_)
SortByScore(rs) ==
    IF rs = <<>> THEN <<>>
    ELSE InsertByScore(rs[Len(rs)], SortByScore(SubSeq(rs, 1, Len(rs) - 1)))

\* rank_servers: the list returned, or the exception raised
rank_servers(ss, b, wd, wj, md, ab) ==
    IF wd < 0 \/ wj < 0 THEN [error |-> "ValueError", ranked |-> <<>>]
    ELSE IF md # Absent /\ md[1] <= 0 THEN [error |-> "ValueError", ranked |-> <<>>]
    ELSE LET base_stat == BaseStat(ss, b)
         IN  IF base_stat = Absent THEN [error |-> "RuntimeError", ranked |-> <<>>]
             ELSE [error |-> None,
                   ranked |-> SortByScore(Candidates(ss, b, base_stat[1], wd, wj, md, ab))]

Rank ==
    /\ r_pc = "rank"
    /\ LET r == rank_servers(stats, base, w_delay, w_jitter, max_delay_ms, allow_base)
       IN  /\ ranked' = r.ranked
           /\ r_error' = r.error
           /\ r_pc' = IF r.error = None THEN "ranked" ELSE "rank_raised"
    /\ UNCHANGED <<stats, base, w_delay, w_jitter, max_delay_ms, allow_base,
                   require_ok_rate, best>>

\* a success-rate test that needs more than the required rate
QualifiesAbove(r, rate) ==
    LET total == r.ok + r.fail
    IN  IF total > 0 THEN r.ok * 10 > rate * total ELSE 0 > rate

\* lines 263-265; rate is in tenths
Qualifies(r, rate) ==
    LET total == r.ok + r.fail
    IN  IF total > 0 THEN r.ok * 10 >= rate * total ELSE 0 >= rate

\* lines 260-267
RECURSIVE Scan(_, _, _)
Scan(rs, b, rate) ==
    IF rs = <<>> THEN Absent
    ELSE IF Head(rs).server = b THEN Scan(Tail(rs), b, rate)
    ELSE IF Qualifies(Head(rs), rate) THEN Some(Head(rs))
    ELSE Scan(Tail(rs), b, rate)

recommend(rs, b, rate) ==
    IF ~(0 <= rate /\ rate <= 10) THEN [error |-> "ValueError", best |-> Absent]
    ELSE [error |-> None, best |-> Scan(rs, b, rate)]

Recommend ==
    /\ r_pc = "ranked"
    /\ \E rate \in RateVals :
         LET r == recommend(ranked, base, rate)
         IN  /\ require_ok_rate' = rate
             /\ best' = r.best
             /\ r_error' = r.error
             /\ r_pc' = IF r.error = None THEN "recommended" ELSE "recommend_raised"
    /\ UNCHANGED <<stats, base, w_delay, w_jitter, max_delay_ms, allow_base, ranked>>

----------------------------------------------------------------------------
(* The specifications: one per entry point of the library. *)

QIdle == q_pc = "idle" /\ q_timeout = 0 /\ q_env = None /\ q_out = None

CIdle ==
    /\ servers = <<>> /\ samples = 0 /\ timeout = 0 /\ sleep_between = 0
    /\ pc = "idle" /\ i = 0 /\ j = 0 /\ raw = <<>> /\ fails = <<>>
    /\ out = <<>> /\ error = None /\ calls = <<>> /\ sleeps = 0

RIdle ==
    /\ stats = <<>> /\ base = None /\ w_delay = 0 /\ w_jitter = 0
    /\ max_delay_ms = Absent /\ allow_base = TRUE /\ r_pc = "idle"
    /\ ranked = <<>> /\ r_error = None /\ require_ok_rate = 0 /\ best = Absent

\* collect_stats
Init == CInit /\ QIdle /\ RIdle

Next ==
    \/ Validate /\ UNCHANGED <<qvars, rvars>>
    \/ Attempt /\ UNCHANGED <<qvars, rvars>>
    \/ EndRound /\ UNCHANGED <<qvars, rvars>>
    \/ Aggregate /\ UNCHANGED <<qvars, rvars>>

Spec == Init /\ [][Next]_vars

\* query_ntp
QueryInit == QInit /\ CIdle /\ RIdle

QueryNext == Query /\ UNCHANGED <<cvars, rvars>>

QuerySpec == QueryInit /\ [][QueryNext]_vars

\* rank_servers, then recommend on its result
RankInit == RInit /\ QIdle /\ CIdle

RankNext ==
    \/ Rank /\ UNCHANGED <<qvars, cvars>>
    \/ Recommend /\ UNCHANGED <<qvars, cvars>>

RankSpec == RankInit /\ [][RankNext]_vars

----------------------------------------------------------------------------
(* Properties of collect_stats, checked under Spec. *)

\* the exception classes the sampler counts as a failed attempt
AttemptFailures == {"timeout", "gaierror", "OSError", "struct.error", "NTPResponseError"}

Returned(c) == c.kind = "sample"
Failed(c) == c.kind = "raise" /\ c.exc \in AttemptFailures
Unexpected(c) == c.kind = "raise" /\ c.exc \notin AttemptFailures

\* the number of calls for server s that satisfy P
NCalls(s, P(_)) == Cardinality({k \in 1..Len(calls) : calls[k].server = s /\ P(calls[k])})

\* C1: a query that ends in a socket timeout, a name-resolution failure, an
\* OS socket error, a struct error or an NTPResponseError never aborts the
\* run and adds one to the failure counter of the server queried, and to
\* nothing else; the run goes on through every remaining server and round,
\* and each Stats it returns for s has ok = the number of s's queries that
\* returned a Sample and fail = the number of s's queries that failed so.
C1_FailuresAreCounted ==
    /\ (calls # <<>> /\ Failed(calls[Len(calls)])) => pc \in {"loop", "done"}
    /\ \A s \in DOMAIN fails :
          /\ fails[s] = NCalls(s, Failed)
          /\ Len(raw[s]) = NCalls(s, Returned)
    /\ pc = "done" =>
          /\ (\A k \in 1..Len(calls) : ~Unexpected(calls[k]))
             => Len(calls) = samples * Len(servers)
          /\ \A k \in 1..Len(out) :
                /\ out[k].ok = NCalls(out[k].server, Returned)
                /\ out[k].fail = NCalls(out[k].server, Failed)

\* one success and one validation failure for "a" over two rounds, the
\* failure first, with "b" queried after it
C1_Witness ==
    /\ pc = "done"
    /\ servers = <<"a", "b">>
    /\ samples = 2
    /\ calls[1].exc = "NTPResponseError"
    /\ calls[3].kind = "sample"
    /\ \E k \in 1..Len(out) :
          out[k].server = "a" /\ out[k].ok = 1 /\ out[k].fail = 1

\* C2: an exception of any other class raised by a query leaves
\* collect_stats at that attempt: it is the last query made, no failure
\* counter counts it, and no list of Stats is returned.
C2_UnexpectedPropagates ==
    \A k \in 1..Len(calls) :
        Unexpected(calls[k]) =>
            /\ k = Len(calls)
            /\ pc = "raised"
            /\ error = calls[k].exc
            /\ out = <<>>
            /\ \A s \in DOMAIN fails : fails[s] = NCalls(s, Failed)

\* an unexpected error in the second round, after a counted failure
C2_Witness ==
    /\ pc = "raised"
    /\ Len(calls) = 3
    /\ Failed(calls[1])
    /\ calls[3].exc = "TypeError"
    /\ fails[calls[1].server] = 1

BadArguments == samples < 1 \/ timeout <= 0 \/ sleep_between < 0

\* C3: with samples < 1, timeout <= 0 or sleep_between < 0, collect_stats
\* raises ValueError before any query and any pause, and returns no list,
\* whatever the server list.
C3_BadArgumentsRejected ==
    BadArguments =>
        /\ calls = <<>>
        /\ sleeps = 0
        /\ pc \in {"start", "raised"}
        /\ pc = "raised" => error = "ValueError"
        /\ out = <<>>

\* rejected for its timeout alone, with servers to query
C3_Witness ==
    /\ pc = "raised"
    /\ error = "ValueError"
    /\ samples = 2
    /\ timeout = 0
    /\ sleep_between = 5
    /\ Len(servers) = 2

\* the servers with at least one query that returned a Sample
Succeeded(s) == \E k \in 1..Len(calls) : calls[k].server = s /\ Returned(calls[k])

\* C10: the list collect_stats returns names exactly the servers of the
\* input list that had at least one successful query, in the order of the
\* input list, and every entry has ok >= 1.
C10_OutputIsSuccessfulSubsequence ==
    pc = "done" =>
        /\ [k \in 1..Len(out) |-> out[k].server] = SelectSeq(servers, Succeeded)
        /\ \A k \in 1..Len(out) : out[k].ok >= 1

\* "b" succeeds before "a" does, "a" comes first in the output; and a run
\* in which a server that only failed is left out
C10_Witness ==
    /\ pc = "done"
    /\ servers = <<"a", "b">>
    /\ samples = 2
    /\ Failed(calls[1])
    /\ Returned(calls[2])
    /\ Returned(calls[3])
    /\ Failed(calls[4])
    /\ Len(out) = 2
    /\ out[1].server = "a"
    /\ out[2].fail = 1

\* a server with failures only has no entry
C10_WitnessDropped ==
    /\ pc = "done"
    /\ servers = <<"a", "b">>
    /\ fails["a"] = 2
    /\ Len(out) = 1
    /\ out[1].server = "b"

\* the number of places server s has in the input list
Occurrences(s) == Cardinality({k \in 1..Len(servers) : servers[k] = s})

\* C12: when collect_stats completes, it has made samples * len(servers)
\* queries, round after round and in list order within a round (the n-th
\* query is for the server at place (n - 1) mod len(servers) of the list),
\* so that a server is queried once per place per round; each Stats has
\* ok + fail = samples * the number of places its server has in the list
\* (samples when names are not repeated), and a server with a success has
\* one Stats per place.
C12_OneQueryPerPlacePerRound ==
    pc = "done" =>
        /\ Len(calls) = samples * Len(servers)
        /\ \A n \in 1..Len(calls) :
              calls[n].server = servers[((n - 1) % Len(servers)) + 1]
        /\ \A s \in DOMAIN fails :
              Cardinality({n \in 1..Len(calls) : calls[n].server = s})
                  = samples * Occurrences(s)
        /\ \A k \in 1..Len(out) :
              /\ out[k].ok + out[k].fail = samples * Occurrences(out[k].server)
              /\ Cardinality({m \in 1..Len(out) : out[m].server = out[k].server})
                    = Occurrences(out[k].server)

\* two rounds over two servers with a failure in the first round: no retry
C12_Witness ==
    /\ pc = "done"
    /\ servers = <<"a", "b">>
    /\ samples = 2
    /\ Failed(calls[1])
    /\ calls[2].server = "b"
    /\ Len(out) = 2
    /\ out[1].ok + out[1].fail = 2

\* a name listed twice: four queries into one pair of accumulators, and
\* two equal entries in the output
C12_WitnessRepeated ==
    /\ pc = "done"
    /\ servers = <<"a", "a">>
    /\ samples = 2
    /\ Len(out) = 2
    /\ out[1] = out[2]
    /\ out[1].ok = 3
    /\ out[1].fail = 1

----------------------------------------------------------------------------
(* Properties of query_ntp and the validator, checked under QuerySpec. *)

\* the five grounds for rejection, on the bytes received (d) and sent (p)
Rejectable(d, p) ==
    IF Len(d) < 48 THEN TRUE
    ELSE \/ d[1] % 8 # 4
         \/ d[1] \div 64 = 3
         \/ d[2] = 0
         \/ \E k \in 24..31 : d[k + 1] # p[k + 17]

\* C4: once a datagram is received, query_ntp raises NTPResponseError
\* exactly when the datagram is shorter than 48 bytes, or its mode is not 4,
\* or its Leap Indicator is 3, or its stratum is 0, or its bytes 24-31 are
\* not the originate timestamp sent in bytes 40-47 of the request; it
\* returns a Sample in every other case, and never from a rejected datagram.
C4_ValidatorRejectsExactly ==
    q_pc = "returned" =>
        /\ q_out.at \in {"validate", "return"} =>
              /\ (q_out.kind = "raise" /\ q_out.exc = "NTPResponseError")
                 <=> Rejectable(q_out.data, q_out.packet)
              /\ q_out.kind = "sample" <=> ~Rejectable(q_out.data, q_out.packet)
        /\ q_out.kind = "sample" =>
              /\ q_out.at = "return"
              /\ ~Rejectable(q_out.data, q_out.packet)
        /\ q_out.exc = "NTPResponseError" => q_out.at = "validate"

\* a datagram with a good header, rejected for its originate fraction alone
C4_Witness ==
    /\ q_pc = "returned"
    /\ q_out.exc = "NTPResponseError"
    /\ Len(q_out.data) = 60
    /\ q_out.data[1] = 100
    /\ q_out.data[2] = 16
    /\ q_env.resp.orig = "stale_frac"

\* a datagram accepted with Leap Indicator 1 and version 3
C4_WitnessAccepted ==
    /\ q_pc = "returned"
    /\ q_out.kind = "sample"
    /\ q_out.data[1] = 92
    /\ q_out.delay_ms < 0

\* C11: no call of query_ntp ends with the socket it opened still open,
\* however it ends: by a return, a rejection, a send or receive failure, or
\* a failure before the request is sent (the timeout, the clock, the
\* encoding of the originate timestamp).
C11_SocketReleased ==
    q_pc = "returned" => q_out.sock # "open"

----------------------------------------------------------------------------
(* Properties of rank_servers and recommend, checked under RankSpec. *)

HasRanked == r_pc \in {"ranked", "recommended", "recommend_raised"}

\* the Stats fields of a Ranked entry
StatsPart(r) ==
    [server |-> r.server, ok |-> r.ok, fail |-> r.fail,
     avg_offset_ms |-> r.avg_offset_ms, std_offset_ms |-> r.std_offset_ms,
     avg_delay_ms |-> r.avg_delay_ms, std_delay_ms |-> r.std_delay_ms]

Proj(rs) == [k \in 1..Len(rs) |-> StatsPart(rs[k])]

\* the entries of ranked whose score is v, as Stats, in the order of ranked
WithScore(v) ==
    LET Is(r) == r.score = v IN Proj(SelectSeq(ranked, Is))

\* the entries of the input that are among ss, in the order of the input
InputAmong(ss) ==
    LET In(st) == \E k \in 1..Len(ss) : ss[k] = st IN SelectSeq(stats, In)

\* C5: the list rank_servers returns is in ascending order of score, and
\* the entries of one score are in the order their Stats had in the input.
C5_SortedAndStable ==
    HasRanked =>
        /\ \A k \in 1..(Len(ranked) - 1) : ranked[k].score <= ranked[k + 1].score
        /\ \A k \in 1..Len(ranked) :
              WithScore(ranked[k].score) = InputAmong(WithScore(ranked[k].score))

\* three entries, the last two of one score and of different servers, the
\* first of them from the later server of the pool
C5_Witness ==
    /\ r_pc = "ranked"
    /\ Len(ranked) = 3
    /\ ranked[1].score < ranked[2].score
    /\ ranked[2].score = ranked[3].score
    /\ ranked[2].server = "s2"
    /\ ranked[3].server = "s1"

Passes(st) ==
    /\ ~(~allow_base /\ st.server = base)
    /\ max_delay_ms = Absent \/ st.avg_delay_ms < max_delay_ms[1]

Count(seq, x) == Cardinality({k \in 1..Len(seq) : seq[k] = x})

\* C6: with the baseline present, rank_servers returns one entry for each
\* input Stats that is not the baseline when allow_base is false and whose
\* avg_delay_ms is below max_delay_ms when that is set, and for no other:
\* a delay equal to the threshold is left out, no delay is left out when no
\* threshold is set, and the baseline is filtered like any other entry.
C6_ExactlyTheFilteredEntries ==
    HasRanked =>
        /\ Len(ranked) = Cardinality({k \in 1..Len(stats) : Passes(stats[k])})
        /\ \A k \in 1..Len(stats) :
              Count(Proj(ranked), stats[k])
                  = IF Passes(stats[k]) THEN Count(stats, stats[k]) ELSE 0
        /\ \A k \in 1..Len(ranked) : Count(stats, StatsPart(ranked[k])) > 0

\* the baseline at the threshold is left out, another server is kept
C6_Witness ==
    /\ r_pc = "ranked"
    /\ allow_base
    /\ max_delay_ms = Some(100)
    /\ Len(stats) = 3
    /\ stats[1].server = "base"
    /\ stats[1].avg_delay_ms = 100
    /\ stats[3].avg_delay_ms = 200
    /\ Len(ranked) = 1
    /\ ranked[1].server = "s1"

BaseMissing == \A k \in 1..Len(stats) : stats[k].server # base

BadWeights ==
    \/ w_delay < 0
    \/ w_jitter < 0
    \/ max_delay_ms # Absent /\ max_delay_ms[1] <= 0

\* C7, as claimed: rank_servers raises RuntimeError whenever no entry of the
\* input is the baseline's, and ValueError when w_delay < 0, w_jitter < 0 or
\* a given max_delay_ms <= 0.
C7_AsClaimed ==
    r_pc # "rank" =>
        /\ BaseMissing => r_pc = "rank_raised" /\ r_error = "RuntimeError"
        /\ BadWeights => r_pc = "rank_raised" /\ r_error = "ValueError"

\* C7, amended: rank_servers raises ValueError when w_delay < 0,
\* w_jitter < 0 or a given max_delay_ms <= 0, whatever the input; with
\* these arguments accepted it raises RuntimeError whenever no entry of the
\* input is the baseline's, the empty input included; either way it
\* returns no list, and it raises in no other case.
C7_ErrorsOfRank ==
    r_pc # "rank" =>
        /\ BadWeights => r_pc = "rank_raised" /\ r_error = "ValueError"
        /\ (~BadWeights /\ BaseMissing)
              => r_pc = "rank_raised" /\ r_error = "RuntimeError"
        /\ r_pc = "rank_raised" => ranked = <<>> /\ (BadWeights \/ BaseMissing)

\* a list of two servers, neither the baseline
C7_Witness ==
    /\ r_pc = "rank_raised"
    /\ r_error = "RuntimeError"
    /\ Len(stats) = 2
    /\ base = "kriss"

\* the entries recommend may return: not the baseline, success rate at
\* least require_ok_rate (in tenths), 0.0 when nothing was attempted
Eligible ==
    {k \in 1..Len(ranked) :
        /\ ranked[k].server # base
        /\ IF ranked[k].ok + ranked[k].fail = 0 THEN 0 >= require_ok_rate
           ELSE 10 * ranked[k].ok >= require_ok_rate * (ranked[k].ok + ranked[k].fail)}

\* C8: for require_ok_rate in [0, 1], recommend returns the first entry of
\* the list that is not the baseline's and whose success rate is at least
\* require_ok_rate, and None exactly when there is no such entry.
C8_FirstEligible ==
    r_pc = "recommended" =>
        /\ require_ok_rate \in 0..10
        /\ best = Absent <=> Eligible = {}
        /\ Eligible # {} =>
              /\ \E k \in Eligible :
                    /\ best = Some(ranked[k])
                    /\ \A m \in Eligible : k <= m
              /\ best[1].server # base

\* the third entry is returned: the baseline and a server with too low a
\* rate come before it, and its own rate is exactly the required 0.8
C8_Witness ==
    /\ r_pc = "recommended"
    /\ require_ok_rate = 8
    /\ Len(ranked) = 3
    /\ ranked[1].server = "base"
    /\ ranked[2].server = "s2"
    /\ best = Some(ranked[3])
    /\ best[1].ok = 4
    /\ best[1].fail = 1

\* C9: every entry rank_servers returns has score >= 0.
C9_ScoreNonNegative ==
    HasRanked => \A k \in 1..Len(ranked) : ranked[k].score >= 0

====
